---------------------------- MODULE Spec2Model ----------------------------
(***************************************************************************)
(* A model of drivers/leds/leds-pwm.c: the PWM LED driver with multi-color *)
(* elements.  The driver's own code (led_pwm_set, __led_element_pwm_set,   *)
(* the two constructors, probe, cleanup and remove) is translated from the *)
(* source.  The kernel services it calls (the PWM provider, the LED class  *)
(* registration and the color-scaling helper) are not part of the file and *)
(* are modelled from their documented contracts.                           *)
(*                                                                         *)
(* TLC's integers are 32 bits wide, so the machine words are modelled at   *)
(* IntBits bits with the C structure kept: `unsigned int' is IntBits wide, *)
(* `int' is its two's-complement reading and `unsigned long long' is twice *)
(* as wide.                                                                *)
(***************************************************************************)
EXTENDS Integers, Sequences, FiniteSets, TLC

VARIABLES
    pc,         \* where the instance is in its life: probe, bound, removed
    ret,        \* the value led_pwm_probe returns
    pdata,      \* TRUE: platform data supplied; FALSE: device tree
    count,      \* number of configured LEDs (led_pwm_probe's count)
    leds,       \* priv->leds[0 .. num_leds-1], in construction order
    num_leds,   \* priv->num_leds
    classdevs,  \* LED class: the registered LEDs, in registration order
    regLog,     \* every led_classdev_register that succeeded, in order
    unregLog,   \* every led_classdev_unregister call, in order
    hw,         \* PWM provider: the state of every acquired channel
    lastSet,    \* per LED: what the most recent led_pwm_set call on it did
    divZero,    \* a do_div by a zero max_value has been executed
    failure,    \* the constructor step that failed: [led, step, err]
    built,      \* the constructor that registered the newest LED: the
                \* periods it chose from and the led_pwm_set calls it made
    calls       \* led_pwm_set invocations in flight, step by step

vars == <<pc, ret, pdata, count, leds, num_leds, classdevs, regLog,
          unregLog, hw, lastSet, divZero, failure, built, calls>>

-----------------------------------------------------------------------------
(* Bounds of the model. *)

IntBits == 12
MaxLeds == 2
MaxElems == 2

(* Program constants. *)

LED_OFF == 0
LED_FULL == 255
EINVAL == 22
ENOMEM == 12
EPROBE_DEFER == 517

-----------------------------------------------------------------------------
(* Machine words. *)

UIntMod == 2 ^ IntBits
ULLMod == 2 ^ (2 * IntBits)

\* Conversion of an unsigned value to `int' (gcc: reduced modulo 2^N).
ToInt(x) ==
    LET m == x % UIntMod
    IN  IF m >= UIntMod \div 2 THEN m - UIntMod ELSE m

\* A period with the top bit of `unsigned int' set (for 32 bits: >= 2^31 ns).
BigPeriod == UIntMod \div 2 + 952

SeqOfLen(S, n) == [1..n -> S]


-----------------------------------------------------------------------------
(* The PWM provider (linux/pwm.h): one channel is [led, duty, period,      *)
(* enabled, driven]; led is the number of the LED it was acquired for and  *)
(* driven records that pwm_config, pwm_enable or pwm_disable was issued on *)
(* it.  A call can be refused by the channel's driver, which the caller's  *)
(* `accept' argument decides.                                              *)

\* devm_pwm_get / devm_of_pwm_get succeeded for LED number l, followed by
\* pwm_apply_args: the channel holds its configured period and is off.
NewChannel(l, period) ==
    [led |-> l, duty |-> 0, period |-> period, enabled |-> FALSE,
     driven |-> FALSE]

\* pwm_config(pwm, int duty_ns, int period_ns): invalid arguments are refused.
PwmConfigValid(duty_ns, period_ns) ==
    duty_ns >= 0 /\ period_ns > 0 /\ duty_ns <= period_ns

PwmConfig(ch, duty_ns, period_ns, accept) ==
    IF PwmConfigValid(duty_ns, period_ns) /\ accept
    THEN [ch |-> [ch EXCEPT !.duty = duty_ns, !.period = period_ns,
                            !.driven = TRUE],
          rc |-> 0]
    ELSE [ch |-> [ch EXCEPT !.driven = TRUE], rc |-> 0 - EINVAL]

\* pwm_enable(pwm) returns int; pwm_disable(pwm) returns nothing.
PwmEnable(ch, accept) ==
    IF accept
    THEN [ch |-> [ch EXCEPT !.enabled = TRUE, !.driven = TRUE], rc |-> 0]
    ELSE [ch |-> [ch EXCEPT !.driven = TRUE], rc |-> 0 - EINVAL]

PwmDisable(ch) == [ch EXCEPT !.enabled = FALSE, !.driven = TRUE]

\* What the provider does to one element apply: refuse nothing, refuse the
\* pwm_config, or refuse the pwm_enable.
Faults == {"none", "config", "enable"}

-----------------------------------------------------------------------------
(* led_scale_color_elements (LED class core): every color element's        *)
(* raw_value becomes its value scaled by brightness / max_brightness.      *)

ScaleValue(value, brightness, max_brightness) ==
    IF max_brightness = 0 THEN 0
    ELSE ((value * brightness) \div max_brightness) % UIntMod

led_scale_color_elements(cdev, brightness) ==
    [cdev EXCEPT !.color_elements =
        [k \in DOMAIN cdev.color_elements |->
            [cdev.color_elements[k] EXCEPT !.raw_value =
                ScaleValue(cdev.color_elements[k].value, brightness,
                           cdev.max_brightness)]]]

-----------------------------------------------------------------------------
(* __led_element_pwm_set: configure, then disable when the duty is 0 and   *)
(* enable otherwise.  The results of pwm_config and pwm_enable are dropped.*)
(* Yields the channel's new state and the calls issued, in order.          *)

ElementPwmSet_AlwaysEnable(elem_pwm, ch, fault) ==
    LET new_duty == elem_pwm.duty
        cfg == PwmConfig(ch, new_duty, ToInt(elem_pwm.period), fault /= "config")
        en == PwmEnable(cfg.ch, fault /= "enable")
    IN  [ch |-> en.ch,
         ops |-> << [op |-> "config", pwm |-> elem_pwm.pwm, duty |-> new_duty,
                     period |-> ToInt(elem_pwm.period), rc |-> cfg.rc],
                    [op |-> "enable", pwm |-> elem_pwm.pwm, duty |-> new_duty,
                     period |-> ToInt(elem_pwm.period), rc |-> en.rc] >>]

ElementPwmSet_SwitchFirst(elem_pwm, ch, fault) ==
    LET new_duty == elem_pwm.duty
        sw == IF new_duty = 0 THEN [ch |-> PwmDisable(ch), rc |-> 0]
              ELSE PwmEnable(ch, fault /= "enable")
        cfg == PwmConfig(sw.ch, new_duty, ToInt(elem_pwm.period),
                         fault /= "config")
    IN  [ch |-> cfg.ch,
         ops |-> << [op |-> IF new_duty = 0 THEN "disable" ELSE "enable",
                     pwm |-> elem_pwm.pwm, duty |-> new_duty,
                     period |-> ToInt(elem_pwm.period), rc |-> sw.rc],
                    [op |-> "config", pwm |-> elem_pwm.pwm, duty |-> new_duty,
                     period |-> ToInt(elem_pwm.period), rc |-> cfg.rc] >>]

ElementPwmSet_Toggle(elem_pwm, ch, fault) ==
    LET new_duty == elem_pwm.duty
        cfg == PwmConfig(ch, new_duty, ToInt(elem_pwm.period), fault /= "config")
        en == PwmEnable(cfg.ch, fault /= "enable")
    IN  IF new_duty = 0 \/ ch.enabled
        THEN [ch |-> PwmDisable(cfg.ch),
              ops |-> << [op |-> "config", pwm |-> elem_pwm.pwm,
                          duty |-> new_duty,
                          period |-> ToInt(elem_pwm.period), rc |-> cfg.rc],
                         [op |-> "disable", pwm |-> elem_pwm.pwm,
                          duty |-> new_duty,
                          period |-> ToInt(elem_pwm.period), rc |-> 0] >>]
        ELSE [ch |-> en.ch,
              ops |-> << [op |-> "config", pwm |-> elem_pwm.pwm,
                          duty |-> new_duty,
                          period |-> ToInt(elem_pwm.period), rc |-> cfg.rc],
                         [op |-> "enable", pwm |-> elem_pwm.pwm,
                          duty |-> new_duty,
                          period |-> ToInt(elem_pwm.period), rc |-> en.rc] >>]

ElementPwmSet(elem_pwm, ch, fault) ==
    LET new_duty == elem_pwm.duty
        cfg == PwmConfig(ch, new_duty, ToInt(elem_pwm.period), fault /= "config")
        en == PwmEnable(cfg.ch, fault /= "enable")
    IN  IF new_duty = 0
        THEN [ch |-> PwmDisable(cfg.ch),
              ops |-> << [op |-> "config", pwm |-> elem_pwm.pwm,
                          duty |-> new_duty,
                          period |-> ToInt(elem_pwm.period), rc |-> cfg.rc],
                         [op |-> "disable", pwm |-> elem_pwm.pwm,
                          duty |-> new_duty,
                          period |-> ToInt(elem_pwm.period), rc |-> 0] >>]
        ELSE [ch |-> en.ch,
              ops |-> << [op |-> "config", pwm |-> elem_pwm.pwm,
                          duty |-> new_duty,
                          period |-> ToInt(elem_pwm.period), rc |-> cfg.rc],
                         [op |-> "enable", pwm |-> elem_pwm.pwm,
                          duty |-> new_duty,
                          period |-> ToInt(elem_pwm.period), rc |-> en.rc] >>]

-----------------------------------------------------------------------------
(* led_pwm_set, lines 83-89: the duty in `unsigned long long'.  quot is    *)
(* the result of do_div(duty, max_value).                                  *)

DutyProduct_Sum(period, raw_value) == (period + raw_value) % ULLMod

DutyProduct(period, raw_value) == (period * raw_value) % ULLMod

DutyPolarity_NoInversion(period, active_low, quot) == quot

DutyPolarity(period, active_low, quot) ==
    IF active_low /= 0 THEN (period - quot) % ULLMod ELSE quot

\* do_div by zero is undefined: the build either traps (the calling thread
\* dies in led_pwm_set) or goes on with a meaningless quotient.
DivZeroOutcomes == {"trap", "zero", "ones"}

DoDiv(n, base, dz) ==
    IF base /= 0 THEN n \div base
    ELSE IF dz = "zero" THEN 0 ELSE ULLMod - 1


-----------------------------------------------------------------------------
(* led_pwm_set.  dat is one struct led_pwm_data:                           *)
(*   [cdev |-> [brightness, max_brightness, multi, color_elements],        *)
(*    num_elements, elements]                                              *)
(* with color_elements a sequence of [value, raw_value, max_value] and     *)
(* elements a sequence of [element_index, pwm, active_low, period, duty].  *)
(* hws is the provider's channel table, faults[i] what the provider does   *)
(* to element i's apply and dz the outcome of a division by zero.          *)
(* acc collects what the call did: the provider calls issued (ops), the    *)
(* duty computed per driven element (calc), and whether it divided by zero *)
(* or trapped; repeat marks a call that was made with the brightness and   *)
(* the provider behaviour of the call before it on the same LED.           *)

\* led_pwm_set, line 78: the color element an element_index names.
ColorElement_First(cdev, element_index) == cdev.color_elements[1]

ColorElement(cdev, element_index) == cdev.color_elements[element_index + 1]

NoFailure == [led |-> 0, step |-> "none", err |-> 0]

NoBuilt == [led |-> 0, pwm_period_ns |-> 0, pargs |-> 0, sets |-> << >>]

NoSet ==
    [led |-> 0, brightness |-> 0, faults |-> <<>>, repeat |-> FALSE,
     ops |-> <<>>, calc |-> <<>>, ret |-> 0, div0 |-> FALSE,
     trapped |-> FALSE]

RECURSIVE SetLoop(_, _, _, _, _, _)
SetLoop(i, dat, hws, faults, dz, acc) ==
    IF i > dat.num_elements
    THEN [dat |-> dat, hw |-> hws, acc |-> acc]
    ELSE
      LET elem_pwm == dat.elements[i]
          element_index == elem_pwm.element_index
      IN
      IF element_index < 0
      THEN SetLoop(i + 1, dat, hws, faults, dz, acc)
      ELSE
        LET color_element == ColorElement(dat.cdev, element_index)
            raw_value == color_element.raw_value
            max_value == color_element.max_value
        IN
        IF max_value = 0 /\ dz = "trap"
        THEN [dat |-> dat, hw |-> hws,
              acc |-> [acc EXCEPT !.div0 = TRUE, !.trapped = TRUE]]
        ELSE
          LET quot == DoDiv(DutyProduct(elem_pwm.period, raw_value),
                            max_value, dz)
              duty == DutyPolarity(elem_pwm.period, elem_pwm.active_low, quot)
              set == [elem_pwm EXCEPT !.duty = ToInt(duty)]
              ap == ElementPwmSet(set, hws[set.pwm], faults[i])
          IN  SetLoop(i + 1,
                      [dat EXCEPT !.elements[i] = set],
                      [hws EXCEPT ![set.pwm] = ap.ch],
                      faults, dz,
                      [acc EXCEPT
                         !.ops = acc.ops \o ap.ops,
                         !.calc = Append(acc.calc,
                             [elem |-> i, period |-> elem_pwm.period,
                              active_low |-> elem_pwm.active_low,
                              raw_value |-> raw_value,
                              max_value |-> max_value,
                              duty |-> duty]),
                         !.div0 = acc.div0 \/ max_value = 0])

LedPwmSet_ClearPeriod(l, dat, hws, brightness, faults, dz) ==
    LET r == SetLoop(1,
                     [dat EXCEPT !.cdev =
                         led_scale_color_elements(dat.cdev, brightness)],
                     hws, faults, dz,
                     [NoSet EXCEPT !.led = l, !.brightness = brightness,
                                   !.faults = faults])
    IN  [r EXCEPT !.dat.elements =
            [i \in DOMAIN r.dat.elements |->
                [r.dat.elements[i] EXCEPT !.period = 0]]]

LedPwmSet(l, dat, hws, brightness, faults, dz) ==
    SetLoop(1,
            [dat EXCEPT !.cdev = led_scale_color_elements(dat.cdev, brightness)],
            hws, faults, dz,
            [NoSet EXCEPT !.led = l, !.brightness = brightness,
                          !.faults = faults])

\* What the provider may do during one call: refuse at most one apply.
FaultPlans(n) ==
    {f \in [1..n -> Faults] :
        Cardinality({i \in 1..n : f[i] /= "none"}) <= 1}

\* The provider accepts every call.
NoFaults(n) == {[i \in 1..n |-> "none"]}

\* The outcomes of a division by zero matter only when one can happen.
DivOutcomes(dat) ==
    IF \E k \in DOMAIN dat.cdev.color_elements :
          dat.cdev.color_elements[k].max_value = 0
    THEN DivZeroOutcomes ELSE {"trap"}

\* The brightness values a caller passes (at most the LED's max_brightness).
Brightnesses(max_brightness) ==
    {b \in {LED_OFF, 128, LED_FULL} : b <= max_brightness}

-----------------------------------------------------------------------------
(* The brightness-set path on its own: one constructed LED, drawn from the *)
(* shapes below, is set again and again.                                   *)

\* <<element_index is none, active_low, period>>
ElemShapes ==
    { <<FALSE, 0, 1000>>, <<FALSE, 1, 1000>>,
      <<FALSE, 0, BigPeriod>>, <<FALSE, 1, BigPeriod>>,
      <<FALSE, 0, 0>>, <<FALSE, 1, 0>>,
      <<TRUE, 0, 1000>> }

\* <<value, max_value>> of color element k: the first as in single mode.
ColorShape(k) == IF k % 2 = 1 THEN <<LED_FULL, LED_FULL>> ELSE <<3, 7>>

UnitLed(es, cs) ==
    [cdev |-> [brightness |-> LED_OFF, max_brightness |-> LED_FULL,
               multi |-> (Len(es) > 1),
               color_elements |->
                   [k \in DOMAIN cs |->
                       [value |-> cs[k][1], raw_value |-> 0,
                        max_value |-> cs[k][2]]]],
     num_elements |-> Len(es),
     elements |->
         [i \in DOMAIN es |->
             [element_index |-> IF es[i][1] THEN -1 ELSE i - 1,
              pwm |-> i, active_low |-> es[i][2], period |-> es[i][3],
              duty |-> 0]]]

UnitInit ==
    /\ pc = "set"
    /\ ret = 0
    /\ pdata = FALSE
    /\ count = 1
    /\ \E n \in 1..MaxElems :
         \E es \in SeqOfLen(ElemShapes, n) :
            /\ leds = << UnitLed(es, [k \in 1..n |-> ColorShape(k)]) >>
            /\ hw = [i \in 1..n |-> NewChannel(1, es[i][3])]
    /\ num_leds = 1
    /\ classdevs = << 1 >>
    /\ regLog = << 1 >>
    /\ unregLog = << >>
    /\ lastSet = << NoSet >>
    /\ divZero = FALSE
    /\ failure = NoFailure
    /\ built = NoBuilt
    /\ calls = << >>

\* led_set_brightness (LED class core): the requested brightness is stored
\* in the LED before brightness_set_blocking is called.
led_set_brightness(cdev, brightness) == [cdev EXCEPT !.brightness = brightness]

\* The LED class calls brightness_set_blocking on a registered LED; with
\* track the call's record notes whether it repeats the call before it.
SetBrightness(l, brightness, plans, track) ==
    \E faults \in plans, dz \in DivOutcomes(leds[l]) :
       LET dat == [leds[l] EXCEPT
                     !.cdev = led_set_brightness(@, brightness)]
           r == LedPwmSet(l, dat, hw, brightness, faults, dz)
       IN  /\ leds' = [leds EXCEPT ![l] = r.dat]
           /\ hw' = r.hw
           /\ lastSet' = [lastSet EXCEPT ![l] =
                  [r.acc EXCEPT !.repeat =
                      /\ track
                      /\ lastSet[l].led = l
                      /\ lastSet[l].brightness = brightness
                      /\ lastSet[l].faults = faults]]
           /\ divZero' = (divZero \/ r.acc.div0)

UnitSet ==
    /\ pc = "set"
    /\ \E b \in Brightnesses(leds[1].cdev.max_brightness) :
         SetBrightness(1, b, FaultPlans(leds[1].num_elements), TRUE)
    /\ UNCHANGED <<pc, ret, pdata, count, num_leds, classdevs, regLog,
                   unregLog, failure, built, calls>>

UnitNext == UnitSet

SetSpec == UnitInit /\ [][UnitNext]_vars


-----------------------------------------------------------------------------
(* Two led_pwm_set invocations on one LED running at the same time: the    *)
(* driver takes no lock, so their steps interleave freely.  One call is    *)
(* [brightness, at, i, new_duty]: at is the step it executes next on       *)
(* element i and new_duty the local of __led_element_pwm_set.  A step is   *)
(* line 68, lines 71-91 with line 48 (the duty is computed, written to the *)
(* element and taken as new_duty), line 50, or lines 52-55.                *)

\* <<element_index is none, active_low, period>>
RaceShapes == { <<FALSE, 0, 1000>>, <<FALSE, 1, 1000>>, <<TRUE, 0, 1000>> }

NewCall(brightness) ==
    [brightness |-> brightness, at |-> "scale", i |-> 1, new_duty |-> 0]

RaceInit ==
    /\ pc = "race"
    /\ ret = 0
    /\ pdata = FALSE
    /\ count = 1
    /\ \E n \in 1..MaxElems :
         \E es \in SeqOfLen(RaceShapes, n) :
            /\ leds = << UnitLed(es, [k \in 1..n |-> ColorShape(k)]) >>
            /\ hw = [i \in 1..n |-> NewChannel(1, es[i][3])]
    /\ num_leds = 1
    /\ classdevs = << 1 >>
    /\ regLog = << 1 >>
    /\ unregLog = << >>
    /\ lastSet = << NoSet >>
    /\ divZero = FALSE
    /\ failure = NoFailure
    /\ built = NoBuilt
    /\ \E b1, b2 \in Brightnesses(LED_FULL) :
         calls = << NewCall(b1), NewCall(b2) >>

\* What no step of led_pwm_set touches.
RaceFrame ==
    UNCHANGED <<pc, ret, pdata, count, num_leds, classdevs, regLog,
                unregLog, lastSet, divZero, failure, built>>

\* The position after element i is done (line 70: i++, i < num_elements).
NextElement(call, dat) ==
    [call EXCEPT !.i = call.i + 1,
                 !.at = IF call.i + 1 > dat.num_elements THEN "done"
                        ELSE "duty"]

\* Line 68.
RaceScale(t) ==
    /\ calls[t].at = "scale"
    /\ leds' = [leds EXCEPT ![1].cdev =
                   led_scale_color_elements(@, calls[t].brightness)]
    /\ calls' = [calls EXCEPT ![t].at = "duty"]
    /\ UNCHANGED hw
    /\ RaceFrame

\* Lines 71-91 and 48.
RaceDuty(t) ==
    /\ calls[t].at = "duty"
    /\ LET dat == leds[1]
           elem_pwm == dat.elements[calls[t].i]
       IN  IF elem_pwm.element_index < 0
           THEN /\ calls' = [calls EXCEPT ![t] = NextElement(@, dat)]
                /\ UNCHANGED leds
           ELSE LET color_element ==
                        ColorElement(dat.cdev, elem_pwm.element_index)
                    quot == DoDiv(DutyProduct(elem_pwm.period,
                                              color_element.raw_value),
                                  color_element.max_value, "trap")
                    duty == DutyPolarity(elem_pwm.period, elem_pwm.active_low,
                                         quot)
                IN  /\ leds' = [leds EXCEPT
                                  ![1].elements[calls[t].i].duty = ToInt(duty)]
                    /\ calls' = [calls EXCEPT ![t].new_duty = ToInt(duty),
                                              ![t].at = "config"]
    /\ UNCHANGED hw
    /\ RaceFrame

\* Line 50.
RaceConfig(t) ==
    /\ calls[t].at = "config"
    /\ LET elem_pwm == leds[1].elements[calls[t].i]
       IN  hw' = [hw EXCEPT ![elem_pwm.pwm] =
                     PwmConfig(@, calls[t].new_duty, ToInt(elem_pwm.period),
                               TRUE).ch]
    /\ calls' = [calls EXCEPT ![t].at = "switch"]
    /\ UNCHANGED leds
    /\ RaceFrame

\* Lines 52-55, and on to the next element.
RaceSwitch(t) ==
    /\ calls[t].at = "switch"
    /\ LET elem_pwm == leds[1].elements[calls[t].i]
       IN  hw' = [hw EXCEPT ![elem_pwm.pwm] =
                     IF calls[t].new_duty = 0 THEN PwmDisable(@)
                     ELSE PwmEnable(@, TRUE).ch]
    /\ calls' = [calls EXCEPT ![t] = NextElement(@, leds[1])]
    /\ UNCHANGED leds
    /\ RaceFrame

RaceNext ==
    \E t \in DOMAIN calls :
        \/ RaceScale(t)
        \/ RaceDuty(t)
        \/ RaceConfig(t)
        \/ RaceSwitch(t)

RaceSpec == RaceInit /\ [][RaceNext]_vars

-----------------------------------------------------------------------------
(* The life of one probed instance.                                        *)

Init ==
    /\ pc = "start"
    /\ ret = 0
    /\ pdata = FALSE
    /\ count = 0
    /\ leds = << >>
    /\ num_leds = 0
    /\ classdevs = << >>
    /\ regLog = << >>
    /\ unregLog = << >>
    /\ hw = << >>
    /\ lastSet = << >>
    /\ divZero = FALSE
    /\ failure = NoFailure
    /\ built = NoBuilt
    /\ calls = << >>

\* The periods a channel's arguments carry (0: none known), the fallback
\* periods of platform data, and the errors of the calls that can fail.
HwPeriods == {0, 1000}
FallbackPeriods == {0, 500}
PwmGetErrors == {0 - EPROBE_DEFER, 0 - EINVAL}
RegisterErrors == {0 - ENOMEM}
SetupErrors == {0 - EINVAL}

\* The numbers of "element-" children a multi-color LED node has.
MultiCounts == {2}

\* led_pwm_probe, lines 327-343.
ProbeStart ==
    /\ pc = "start"
    /\ \E pd \in BOOLEAN, c \in 0..MaxLeds, alloc \in BOOLEAN :
         /\ pdata' = pd
         /\ count' = c
         /\ IF c = 0 THEN ret' = 0 - EINVAL /\ pc' = "failed"
            ELSE IF ~alloc THEN ret' = 0 - ENOMEM /\ pc' = "failed"
            ELSE ret' = 0 /\ pc' = "adding"
    /\ UNCHANGED <<leds, num_leds, classdevs, regLog, unregLog, hw,
                   lastSet, divZero, failure, built, calls>>

\* led_classdev_register (LED class core): a max_brightness of 0 becomes
\* LED_FULL; from its success on the LED's brightness can be set.
ClassdevRegister(cdev) ==
    [cdev EXCEPT !.max_brightness =
        IF cdev.max_brightness = 0 THEN LED_FULL ELSE cdev.max_brightness]

\* The constructor failed with error e: back in probe, which cleans up.
AddFailed(step, e, hws) ==
    /\ failure' = [led |-> num_leds + 1, step |-> step, err |-> e]
    /\ ret' = e
    /\ pc' = "cleanup"
    /\ hw' = hws
    /\ UNCHANGED <<leds, num_leds, classdevs, regLog, lastSet, built>>

AddRegister_DriveFirst(led_data, hws, reg, from) ==
    IF reg /= 0
    THEN AddFailed("register", reg,
                   [p \in DOMAIN hws |->
                       IF hws[p].led = num_leds + 1
                       THEN PwmDisable(hws[p]) ELSE hws[p]])
    ELSE /\ failure' = failure
         /\ built' = [from EXCEPT !.led = num_leds + 1, !.sets = << >>]
         /\ leds' = Append(leds, [led_data EXCEPT
                                     !.cdev = ClassdevRegister(led_data.cdev)])
         /\ num_leds' = num_leds + 1
         /\ classdevs' = Append(classdevs, num_leds + 1)
         /\ regLog' = Append(regLog, num_leds + 1)
         /\ lastSet' = Append(lastSet, NoSet)
         /\ hw' = hws
         /\ ret' = reg
         /\ pc' = "drive"

\* led_classdev_register returned reg for led_data, which was set up from
\* the fallback period and the channel arguments in from.
AddRegister(led_data, hws, reg, from) ==
    IF reg /= 0
    THEN AddFailed("register", reg, hws)
    ELSE /\ failure' = failure
         /\ built' = [from EXCEPT !.led = num_leds + 1, !.sets = << >>]
         /\ leds' = Append(leds, [led_data EXCEPT
                                     !.cdev = ClassdevRegister(led_data.cdev)])
         /\ num_leds' = num_leds + 1
         /\ classdevs' = Append(classdevs, num_leds + 1)
         /\ regLog' = Append(regLog, num_leds + 1)
         /\ lastSet' = Append(lastSet, NoSet)
         /\ hw' = hws
         /\ ret' = reg
         /\ pc' = "drive"

AddSingleRegister_NoFallback(desc, acq, reg) ==
    LET led_data ==
          [cdev |-> [brightness |-> LED_OFF,
                     max_brightness |-> desc.max_brightness,
                     multi |-> FALSE,
                     color_elements |->
                         << [value |-> 0, raw_value |-> 0, max_value |-> 0] >>],
           num_elements |-> 1,
           elements |->
               << [element_index |-> 0, pwm |-> Len(hw) + 1,
                   active_low |-> desc.active_low,
                   period |-> acq,
                   duty |-> 0] >>]
    IN  IF acq < 0
        THEN AddFailed("pwm", acq, hw)
        ELSE AddRegister(led_data, Append(hw, NewChannel(num_leds + 1, acq)),
                         reg, [NoBuilt EXCEPT
                                 !.pwm_period_ns = desc.pwm_period_ns,
                                 !.pargs = acq])

\* led_pwm_add_single, lines 119-178: up to led_classdev_register.
\* acq is what devm_pwm_get yields: an error, or a channel whose arguments
\* carry that period.
AddSingleRegister(desc, acq, reg) ==
    LET led_data ==
          [cdev |-> [brightness |-> LED_OFF,
                     max_brightness |-> desc.max_brightness,
                     multi |-> FALSE,
                     color_elements |->
                         << [value |-> 0, raw_value |-> 0, max_value |-> 0] >>],
           num_elements |-> 1,
           elements |->
               << [element_index |-> 0, pwm |-> Len(hw) + 1,
                   active_low |-> desc.active_low,
                   period |-> IF acq = 0 /\ desc.pwm_period_ns > 0
                              THEN desc.pwm_period_ns ELSE acq,
                   duty |-> 0] >>]
    IN  IF acq < 0
        THEN AddFailed("pwm", acq, hw)
        ELSE AddRegister(led_data, Append(hw, NewChannel(num_leds + 1, acq)),
                         reg, [NoBuilt EXCEPT
                                 !.pwm_period_ns = desc.pwm_period_ns,
                                 !.pargs = acq])

\* led_pwm_add_multi, lines 198-267: up to led_classdev_register.  Every
\* element child has the same polarity, channel period and color shape cs;
\* fail = j > 0 makes element j's setup (kind "setup") or channel
\* acquisition (kind "pwm") fail with error e.
AddMultiRegister(desc, n, active_low, period, cs, fail, kind, e, reg) ==
    LET got == IF fail = 0 THEN n ELSE fail - 1
        hws == hw \o [i \in 1..got |-> NewChannel(num_leds + 1, period)]
        led_data ==
          [cdev |-> [brightness |-> LED_OFF,
                     max_brightness |-> desc.max_brightness,
                     multi |-> TRUE,
                     color_elements |->
                         [k \in 1..n |-> [value |-> cs[1], raw_value |-> 0,
                                          max_value |-> cs[2]]]],
           num_elements |-> n,
           elements |->
               [i \in 1..n |->
                   [element_index |-> i - 1, pwm |-> Len(hw) + i,
                    active_low |-> active_low, period |-> period,
                    duty |-> 0]]]
    IN  IF fail /= 0
        THEN AddFailed(kind, e, hws)
        ELSE AddRegister(led_data, hws, reg,
                         [NoBuilt EXCEPT
                            !.pwm_period_ns = desc.pwm_period_ns,
                            !.pargs = period])

\* led_pwm_probe, lines 345-351: the next entry of the platform data.
AddPdata ==
    /\ pc = "adding" /\ pdata /\ num_leds < count
    /\ \E active_low \in {0, 1}, max_brightness \in {0, LED_FULL},
          pwm_period_ns \in FallbackPeriods,
          acq \in PwmGetErrors \cup HwPeriods, reg \in {0} \cup RegisterErrors :
         AddSingleRegister([active_low |-> active_low,
                            max_brightness |-> max_brightness,
                            pwm_period_ns |-> pwm_period_ns], acq, reg)
    /\ UNCHANGED <<pdata, count, unregLog, divZero, calls>>

\* led_pwm_create_of, lines 287-319: the next child node.  max_brightness
\* is what `led' holds after of_property_read_u32; pwm_period_ns stays 0.
\* A child with "element-" children is a multi-color LED.
AddOfChild ==
    /\ pc = "adding" /\ ~pdata /\ num_leds < count
    /\ \E max_brightness \in {0, LED_FULL},
          num_color_elements \in {0} \cup MultiCounts, active_low \in {0, 1},
          period \in HwPeriods, reg \in {0} \cup RegisterErrors :
         LET desc == [active_low |-> active_low,
                      max_brightness |-> max_brightness,
                      pwm_period_ns |-> 0]
         IN  IF num_color_elements /= 0
             THEN \E fail \in 0..num_color_elements, kind \in {"setup", "pwm"},
                     e \in SetupErrors \cup PwmGetErrors :
                    /\ e \in (IF kind = "setup" THEN SetupErrors
                              ELSE PwmGetErrors)
                    /\ AddMultiRegister(desc, num_color_elements, active_low,
                                        period, <<LED_FULL, LED_FULL>>,
                                        fail, kind, e, reg)
             ELSE \E acq \in PwmGetErrors \cup {period} :
                    AddSingleRegister(desc, acq, reg)
    /\ UNCHANGED <<pdata, count, unregLog, divZero, calls>>

AddDrive_NoCall ==
    /\ pc = "drive"
    /\ pc' = "adding"
    /\ UNCHANGED <<ret, pdata, count, leds, num_leds, classdevs, regLog,
                   unregLog, hw, lastSet, divZero, failure, built, calls>>

\* Lines 180-185 of led_pwm_add_single and line 268 of led_pwm_add_multi:
\* after a successful registration the LED is driven at cdev.brightness.
AddDrive ==
    /\ pc = "drive"
    /\ LET l == num_leds
           cdev == leds[l].cdev
           dat == IF cdev.multi THEN leds[l]
                  ELSE [leds[l] EXCEPT
                          !.cdev.color_elements[1].value = cdev.max_brightness,
                          !.cdev.color_elements[1].max_value =
                              cdev.max_brightness]
       IN  \E faults \in NoFaults(dat.num_elements), dz \in DivOutcomes(dat) :
              LET r == LedPwmSet(l, dat, hw, cdev.brightness, faults, dz)
              IN  /\ leds' = [leds EXCEPT ![l] = r.dat]
                  /\ hw' = r.hw
                  /\ lastSet' = [lastSet EXCEPT ![l] = r.acc]
                  /\ divZero' = (divZero \/ r.acc.div0)
                  /\ built' = [built EXCEPT !.sets = Append(@, r.acc)]
    /\ pc' = "adding"
    /\ UNCHANGED <<ret, pdata, count, num_leds, classdevs, regLog,
                   unregLog, failure, calls>>

\* led_classdev_unregister (LED class core).
ClassdevUnregister(cds, l) == SelectSeq(cds, LAMBDA x : x /= l)

\* led_pwm_cleanup: while (priv->num_leds--) unregister leds[num_leds].
led_pwm_cleanup_Forward(n, cds, log) ==
    [num_leds |-> 0 - 1, classdevs |-> << >>,
     unregLog |-> log \o [i \in 1..n |-> i]]

RECURSIVE led_pwm_cleanup(_, _, _)
led_pwm_cleanup(n, cds, log) ==
    IF n = 0
    THEN [num_leds |-> n - 1, classdevs |-> cds, unregLog |-> log]
    ELSE led_pwm_cleanup(n - 1, ClassdevUnregister(cds, n), Append(log, n))

Cleanup ==
    LET r == led_pwm_cleanup(num_leds, classdevs, unregLog)
    IN  /\ num_leds' = r.num_leds
        /\ classdevs' = r.classdevs
        /\ unregLog' = r.unregLog

\* led_pwm_probe, lines 356-359: a constructor failed.
ProbeFail_NoCleanup ==
    /\ pc = "cleanup"
    /\ pc' = "failed"
    /\ UNCHANGED <<ret, pdata, count, leds, num_leds, classdevs, regLog,
                   unregLog, hw, lastSet, divZero, failure, built, calls>>

ProbeFail ==
    /\ pc = "cleanup"
    /\ Cleanup
    /\ pc' = "failed"
    /\ UNCHANGED <<ret, pdata, count, leds, regLog, hw, lastSet, divZero,
                   failure, built, calls>>

\* led_pwm_probe, lines 361-363: every LED was added.
ProbeDone ==
    /\ pc = "adding" /\ num_leds = count
    /\ pc' = "bound"
    /\ ret' = 0
    /\ UNCHANGED <<pdata, count, leds, num_leds, classdevs, regLog,
                   unregLog, hw, lastSet, divZero, failure, built, calls>>

\* led_pwm_remove.
Remove ==
    /\ pc = "bound"
    /\ Cleanup
    /\ pc' = "removed"
    /\ UNCHANGED <<ret, pdata, count, leds, regLog, hw, lastSet, divZero,
                   failure, built, calls>>

\* The LED class sets the brightness of a registered LED (sysfs, a trigger),
\* at any time from its registration to its unregistration.
AsyncSet ==
    /\ \E k \in DOMAIN classdevs :
         \E b \in {LED_OFF, leds[classdevs[k]].cdev.max_brightness} :
            SetBrightness(classdevs[k], b,
                          NoFaults(leds[classdevs[k]].num_elements), FALSE)
    /\ UNCHANGED <<pc, ret, pdata, count, num_leds, classdevs, regLog,
                   unregLog, failure, built, calls>>

Next ==
    \/ ProbeStart
    \/ AddPdata
    \/ AddOfChild
    \/ AddDrive
    \/ ProbeFail
    \/ ProbeDone
    \/ Remove
    \/ AsyncSet

Spec == Init /\ [][Next]_vars


-----------------------------------------------------------------------------
(* Properties of the brightness-set path, checked under SetSpec.           *)

Range(q) == {q[k] : k \in DOMAIN q}

\* The elements led_pwm_set drives, in array order.
DrivenSeq(dat) ==
    SelectSeq([i \in 1..dat.num_elements |-> i],
              LAMBDA i : dat.elements[i].element_index >= 0)

\* The provider refused operation op on channel pwm in call.
Refused(call, pwm, op) ==
    \E j \in DOMAIN call.ops :
        call.ops[j].pwm = pwm /\ call.ops[j].op = op /\ call.ops[j].rc /= 0

\* C1: after brightness-set calls in which every color element has
\* 0 <= raw_value <= max_value and max_value > 0 (so no call divided by
\* zero), every element's recorded duty satisfies 0 <= duty <= period.
C1_DutyWithinPeriod ==
    \A l \in DOMAIN leds :
        ( /\ ~lastSet[l].div0
          /\ \A k \in DOMAIN leds[l].cdev.color_elements :
                LET ce == leds[l].cdev.color_elements[k]
                IN  ce.max_value > 0 /\ 0 <= ce.raw_value
                    /\ ce.raw_value <= ce.max_value )
        => \A i \in DOMAIN leds[l].elements :
              /\ 0 <= leds[l].elements[i].duty
              /\ leds[l].elements[i].duty <= leds[l].elements[i].period

\* C2: after an element apply the element's channel is disabled if its duty
\* is 0 and, the provider having accepted pwm_enable, enabled if its duty
\* is greater than 0, whatever the channel's state was before.
C2_EnableMatchesDuty ==
    \A l \in DOMAIN leds :
        \A k \in DOMAIN lastSet[l].calc :
            LET e == leds[l].elements[lastSet[l].calc[k].elem]
                ch == hw[e.pwm]
            IN  /\ e.duty = 0 => ~ch.enabled
                /\ (e.duty > 0 /\ ~Refused(lastSet[l], e.pwm, "enable"))
                      => ch.enabled

\* A channel that an earlier call enabled with a nonzero duty (which it
\* still holds, the provider having refused the new pwm_config) is disabled
\* by an apply with duty 0, while another element of the LED is enabled.
C2_Witness ==
    \E l \in DOMAIN leds :
        \E k1, k2 \in DOMAIN lastSet[l].calc :
            LET e1 == leds[l].elements[lastSet[l].calc[k1].elem]
                e2 == leds[l].elements[lastSet[l].calc[k2].elem]
            IN  /\ e1.duty = 0 /\ ~hw[e1.pwm].enabled /\ hw[e1.pwm].duty > 0
                /\ Refused(lastSet[l], e1.pwm, "config")
                /\ e2.duty > 0 /\ hw[e2.pwm].enabled

\* C3: for a raw value v with 0 <= v <= max_value, led_pwm_set computes
\* floor(period * v / max_value) for an active-high element and period
\* minus that for an active-low one, from the element's own period and
\* polarity; duty(0) is period if active-low else 0, duty(max_value) is 0 if
\* active-low else period, and period 1000, max 255, v 128, active-high
\* gives 501.
C3_DutyFormula ==
    \A l \in DOMAIN leds :
        \A k \in DOMAIN lastSet[l].calc :
            LET c == lastSet[l].calc[k]
                e == leds[l].elements[c.elem]
                floor == (c.period * c.raw_value) \div c.max_value
            IN  (c.max_value > 0 /\ c.raw_value <= c.max_value) =>
                  /\ c.period = e.period /\ c.active_low = e.active_low
                  /\ c.duty = IF c.active_low /= 0 THEN c.period - floor
                              ELSE floor
                  /\ c.raw_value = 0 =>
                        c.duty = IF c.active_low /= 0 THEN c.period ELSE 0
                  /\ c.raw_value = c.max_value =>
                        c.duty = IF c.active_low /= 0 THEN 0 ELSE c.period
                  /\ (c.period = 1000 /\ c.max_value = 255
                      /\ c.raw_value = 128 /\ c.active_low = 0)
                        => c.duty = 501

C3_Witness ==
    \E l \in DOMAIN leds :
        \E k \in DOMAIN lastSet[l].calc :
            LET c == lastSet[l].calc[k]
            IN  /\ c.period = 1000 /\ c.max_value = 255 /\ c.raw_value = 128
                /\ c.active_low = 0 /\ c.duty = 501
                /\ leds[l].elements[c.elem].duty = 501

C5_Step ==
    LET dat == leds[1]
        post == leds'[1]
        call == lastSet'[1]
        drv == DrivenSeq(dat)
    IN  /\ Len(call.ops) = 2 * Len(drv)
        /\ Len(call.calc) = Len(drv)
        /\ \A k \in 1..Len(drv) :
              LET i == drv[k]
                  e == dat.elements[i]
                  ce == post.cdev.color_elements[e.element_index + 1]
              IN  /\ call.ops[2 * k - 1].op = "config"
                  /\ call.ops[2 * k - 1].pwm = e.pwm
                  /\ call.ops[2 * k].op \in {"enable", "disable"}
                  /\ call.ops[2 * k].pwm = e.pwm
                  /\ call.calc[k].elem = i
                  /\ call.calc[k].raw_value = ce.raw_value
                  /\ call.calc[k].max_value = ce.max_value
                  /\ post.elements[i].duty = ToInt(call.calc[k].duty)
                  /\ call.ops[2 * k - 1].duty = post.elements[i].duty
        /\ \A i \in DOMAIN dat.elements :
              dat.elements[i].element_index < 0 =>
                  /\ post.elements[i] = dat.elements[i]
                  /\ hw'[dat.elements[i].pwm] = hw[dat.elements[i].pwm]

C5_DrivesExactlyIndexed == [][C5_Step]_vars

\* An LED whose first element has no element_index and whose second has:
\* a call drove the second (two provider calls) and not the first.
C5_Witness ==
    /\ pc = "set"
    /\ leds[1].num_elements = 2
    /\ leds[1].elements[1].element_index < 0
    /\ leds[1].elements[2].element_index = 1
    /\ Len(lastSet[1].ops) = 2
    /\ lastSet[1].calc[1].raw_value = 1
    /\ leds[1].elements[2].duty /= 0
    /\ hw[2].driven /\ ~hw[1].driven /\ leds[1].elements[1].duty = 0

\* Two successive led_pwm_set calls on the LED, the second with raw value
\* v2 where the first had v1 <= v2 (or v1 >= v2) on an element: the duty the
\* element holds after the second call compared with the duty it held after
\* the first.
C13_Step ==
    LET prev == lastSet[1]
        new == lastSet'[1]
    IN  (prev.led = 1 /\ new.led = 1) =>
          \A k \in DOMAIN new.calc :
              LET c1 == prev.calc[k]
                  c2 == new.calc[k]
                  d1 == leds[1].elements[c1.elem].duty
                  d2 == leds'[1].elements[c2.elem].duty
              IN  ( /\ c1.max_value > 0 /\ c1.raw_value <= c1.max_value
                    /\ c2.max_value = c1.max_value
                    /\ c2.raw_value <= c2.max_value
                    /\ c2.period = c1.period )
                  => /\ (c1.active_low = 0 /\ c1.raw_value <= c2.raw_value)
                           => d1 <= d2
                     /\ (c1.active_low = 0 /\ c1.raw_value >= c2.raw_value)
                           => d1 >= d2
                     /\ (c1.active_low /= 0 /\ c1.raw_value <= c2.raw_value)
                           => d1 >= d2
                     /\ (c1.active_low /= 0 /\ c1.raw_value >= c2.raw_value)
                           => d1 <= d2

\* C13: for a fixed period and max_value > 0 the duty led_pwm_set gives an
\* element is non-decreasing in the raw value v for an active-high element
\* and non-increasing in v for an active-low one, over 0 <= v <= max_value.
C13_DutyMonotone == [][C13_Step]_vars

\* C14: a led_pwm_set call made with the brightness of the call before it
\* on the same LED (the provider behaving as it did then) leaves every
\* element's recorded duty and every channel's configured duty and period
\* and enabled state as the first call left them, whatever the channels'
\* state was before the first call.
C14_Step ==
    lastSet'[1].repeat =>
        /\ \A i \in DOMAIN leds[1].elements :
              leds'[1].elements[i].duty = leds[1].elements[i].duty
        /\ \A p \in DOMAIN hw :
              /\ hw'[p].duty = hw[p].duty
              /\ hw'[p].period = hw[p].period
              /\ hw'[p].enabled = hw[p].enabled

C14_SetIdempotent == [][C14_Step]_vars

\* Brightness 128 was set twice in succession on an LED with a 1000 ns
\* active-high element: the element holds duty 501 and its channel is
\* configured with it and enabled.
C14_Witness ==
    /\ lastSet[1].repeat /\ lastSet[1].brightness = 128
    /\ \E i \in DOMAIN leds[1].elements :
          LET e == leds[1].elements[i]
          IN  /\ e.duty = 501 /\ e.period = 1000
              /\ hw[e.pwm].duty = 501 /\ hw[e.pwm].enabled

\* C15: in every element apply of a led_pwm_set call pwm_config is issued
\* first, with the element's recorded duty and its period, and then
\* pwm_disable or pwm_enable on the same channel, decided by that same
\* duty: pwm_disable if it is 0 and pwm_enable otherwise.
C15_ConfigBeforeSwitch ==
    \A l \in DOMAIN leds :
        LET call == lastSet[l]
        IN  /\ Len(call.ops) = 2 * Len(call.calc)
            /\ \A k \in DOMAIN call.calc :
                  LET e == leds[l].elements[call.calc[k].elem]
                      cfg == call.ops[2 * k - 1]
                      sw == call.ops[2 * k]
                  IN  /\ cfg.op = "config" /\ cfg.pwm = e.pwm
                      /\ cfg.duty = e.duty
                      /\ cfg.period = ToInt(e.period)
                      /\ sw.pwm = e.pwm
                      /\ sw.duty = cfg.duty
                      /\ sw.op = IF cfg.duty = 0 THEN "disable" ELSE "enable"

\* One call re-enabled an element with duty 501 and disabled another with
\* duty 0: each channel was configured before it was switched, and the
\* enabled one holds the duty just configured.
C15_Witness ==
    \E k1, k2 \in DOMAIN lastSet[1].calc :
        LET call == lastSet[1]
            e1 == leds[1].elements[call.calc[k1].elem]
        IN  /\ call.ops[2 * k1 - 1].op = "config"
            /\ call.ops[2 * k1 - 1].duty = 501
            /\ call.ops[2 * k1 - 1].rc = 0
            /\ call.ops[2 * k1].op = "enable"
            /\ hw[e1.pwm].enabled /\ hw[e1.pwm].duty = 501
            /\ call.ops[2 * k2 - 1].op = "config"
            /\ call.ops[2 * k2 - 1].duty = 0
            /\ call.ops[2 * k2].op = "disable"

\* C17: whatever the interleaving of the steps of two led_pwm_set calls on
\* one LED, once both have completed every driven element's channel is
\* configured with the element's recorded duty and is enabled exactly when
\* that duty is not 0.
C17_InterleavingHarmless ==
    (pc = "race" /\ \A t \in DOMAIN calls : calls[t].at = "done") =>
        \A i \in DOMAIN leds[1].elements :
            LET e == leds[1].elements[i]
            IN  e.element_index >= 0 =>
                  /\ hw[e.pwm].duty = e.duty
                  /\ hw[e.pwm].enabled = (e.duty /= 0)

\* C19: for every period and every raw_value <= max_value (max_value > 0)
\* the duty stored in the element's int field, which is also what
\* pwm_config is given, is the exact value of period * raw_value / max_value
\* (period minus that for active-low): the product does not wrap and the
\* stored value is neither truncated nor negative.
C19_StoredDutyExact ==
    \A l \in DOMAIN leds :
        \A k \in DOMAIN lastSet[l].calc :
            LET c == lastSet[l].calc[k]
                e == leds[l].elements[c.elem]
                floor == (c.period * c.raw_value) \div c.max_value
                exact == IF c.active_low /= 0 THEN c.period - floor ELSE floor
            IN  (c.max_value > 0 /\ c.raw_value <= c.max_value) =>
                  /\ DutyProduct(c.period, c.raw_value)
                        = c.period * c.raw_value
                  /\ e.duty = exact
                  /\ e.duty >= 0
                  /\ lastSet[l].ops[2 * k - 1].duty = exact

\* C7: if the provider reports a fault from pwm_config, pwm_enable or
\* pwm_disable during a brightness-set, led_pwm_set returns a non-success
\* result.
C7_FaultPropagates ==
    \A l \in DOMAIN leds :
        (\E j \in DOMAIN lastSet[l].ops : lastSet[l].ops[j].rc /= 0)
            => lastSet[l].ret /= 0


-----------------------------------------------------------------------------
(* Properties of the instance's life, checked under Spec.                  *)

Reverse(q) == [k \in 1..Len(q) |-> q[Len(q) + 1 - k]]

\* C6: if the construction of the k-th LED fails during probe (channel
\* acquisition, deferred or not, element setup or registration), then when
\* probe has returned the LEDs registered earlier, numbers 1 to k-1, have
\* all been unregistered, no LED is registered, and probe's return value is
\* the error of the step that failed.
C6_FailedProbeUnregistersAll ==
    (pc = "failed" /\ failure.led > 0) =>
        /\ Range(regLog) = 1..(failure.led - 1)
        /\ Range(regLog) \subseteq Range(unregLog)
        /\ classdevs = << >>
        /\ ret = failure.err
        /\ ret < 0

\* The second LED's channel is not available yet: the first LED has been
\* unregistered and probe returned -EPROBE_DEFER.
C6_Witness ==
    /\ pc = "failed"
    /\ failure = [led |-> 2, step |-> "pwm", err |-> 0 - EPROBE_DEFER]
    /\ ret = 0 - EPROBE_DEFER
    /\ regLog = << 1 >>
    /\ unregLog = << 1 >>
    /\ classdevs = << >>

\* C8: a multi-color LED with an element whose channel has no period
\* (period 0) is not constructed: no registered multi-color LED has such an
\* element.
C8_MultiZeroPeriodRejected ==
    \A l \in DOMAIN leds :
        leds[l].cdev.multi =>
            \A i \in DOMAIN leds[l].elements : leds[l].elements[i].period /= 0

\* C9: led_pwm_set never divides by a max_value of zero, in the initial
\* drive or in a call the LED class makes once led_classdev_register has
\* succeeded.
C9_NoDivisionByZero == ~divZero

\* C10: every LED that was registered is unregistered exactly once, by
\* led_pwm_cleanup when probe fails or by led_pwm_remove after probe
\* succeeded, in reverse registration order; no LED is unregistered before
\* that, and none that was never registered.
C10_UnregisteredOnceInReverse ==
    /\ Cardinality(Range(unregLog)) = Len(unregLog)
    /\ Range(unregLog) \subseteq Range(regLog)
    /\ pc \in {"failed", "removed"} => unregLog = Reverse(regLog)
    /\ pc \notin {"failed", "removed"} => unregLog = << >>
    /\ pc = "removed" => ret = 0
    /\ pc = "failed" => ret < 0

\* Two LEDs were registered and led_pwm_remove unregistered the second,
\* then the first.
C10_Witness ==
    /\ pc = "removed"
    /\ regLog = << 1, 2 >>
    /\ unregLog = << 2, 1 >>
    /\ classdevs = << >>

C12_Step(off) ==
    LET l == num_leds
    IN  /\ (pc = "drive" /\ pc' = "drive") => built' = built
        /\ (pc /= "drive" /\ pc' = "drive") =>
              /\ built'.led = num_leds' /\ built'.sets = << >>
              /\ regLog' = Append(regLog, num_leds')
        /\ (pc /= "drive" /\ pc' /= "drive") => built' = built
        /\ (pc /= "cleanup" /\ pc' = "cleanup") =>
              lastSet' = lastSet /\ leds' = leds
        /\ (pc = "drive" /\ pc' /= "drive") =>
              /\ built.led = l /\ built.sets = << >>
              /\ Len(built'.sets) = 1
              /\ LET acc == built'.sets[1]
                     post == leds'[l]
                     drv == DrivenSeq(post)
                 IN  /\ acc.brightness = leds[l].cdev.brightness
                     /\ lastSet[l] = NoSet => acc.brightness = LED_OFF
                     /\ off => acc.brightness = LED_OFF
                     /\ ~acc.trapped /\ ~acc.div0
                     /\ Len(acc.calc) = Len(drv)
                     /\ Len(acc.ops) = 2 * Len(drv)
                     /\ \A k \in 1..Len(drv) :
                           LET c == acc.calc[k]
                               e == post.elements[drv[k]]
                               ce == post.cdev.color_elements
                                         [e.element_index + 1]
                               floor == (e.period * c.raw_value)
                                            \div ce.max_value
                           IN  /\ c.elem = drv[k]
                               /\ ce.max_value > 0
                               /\ c.raw_value =
                                     (ce.value * acc.brightness)
                                         \div post.cdev.max_brightness
                               /\ c.duty = IF e.active_low /= 0
                                           THEN e.period - floor ELSE floor
                               /\ e.duty = ToInt(c.duty)
                               /\ acc.ops[2 * k - 1].op = "config"
                               /\ acc.ops[2 * k - 1].pwm = e.pwm
                               /\ acc.ops[2 * k - 1].duty = e.duty
                               /\ acc.ops[2 * k].pwm = e.pwm
                               /\ acc.ops[2 * k].op =
                                     IF e.duty = 0 THEN "disable" ELSE "enable"
                               /\ hw'[e.pwm].enabled = (e.duty /= 0)

\* C12 as stated: when the registration of an LED succeeds, its constructor
\* calls led_pwm_set exactly once before it returns, with brightness
\* LED_OFF, so that every driven element has a duty computed from that
\* brightness and a matching channel state; when registration fails it
\* makes no such call.
C12_InitialDriveAtOff == [][C12_Step(TRUE)]_vars

\* C12 amended: the one call is made with the brightness the LED holds
\* when the constructor reads it after registration: LED_OFF unless the LED
\* class has set the LED's brightness since the registration succeeded.
C12_InitialDriveAtBrightness == [][C12_Step(FALSE)]_vars

\* The second LED, a multi-color LED with active-low elements, has been
\* registered and driven once by its constructor at LED_OFF: its elements
\* hold their period as duty and their channels are enabled.
C12_Witness ==
    /\ pc = "adding" /\ built.led = 2 /\ num_leds = 2
    /\ Len(built.sets) = 1
    /\ built.sets[1].brightness = LED_OFF
    /\ lastSet[2] = built.sets[1]
    /\ leds[2].cdev.multi
    /\ \A i \in DOMAIN leds[2].elements :
          LET e == leds[2].elements[i]
          IN  /\ e.active_low = 1 /\ e.period = 1000 /\ e.duty = 1000
              /\ hw[e.pwm].enabled /\ hw[e.pwm].duty = 1000

\* C16: the period of an LED constructed by led_pwm_add_single is the period
\* its channel's arguments carry when that is not 0, otherwise the fallback
\* period pwm_period_ns of its description when that is greater than 0; it
\* is 0 only when both are 0.
C16_SinglePeriod ==
    (built.led > 0 /\ ~leds[built.led].cdev.multi) =>
        LET period == leds[built.led].elements[1].period
        IN  /\ built.pargs /= 0 => period = built.pargs
            /\ (built.pargs = 0 /\ built.pwm_period_ns > 0)
                  => period = built.pwm_period_ns
            /\ period = 0 <=> (built.pargs = 0 /\ built.pwm_period_ns = 0)

\* An LED from platform data whose channel carries no period took the
\* fallback period, and its constructor has driven it with that period.
C16_Witness ==
    /\ built.led > 0 /\ pdata /\ ~leds[built.led].cdev.multi
    /\ built.pargs = 0 /\ built.pwm_period_ns = 500
    /\ leds[built.led].elements[1].period = 500
    /\ Len(built.sets) = 1
    /\ built.sets[1].ops[1].period = 500

\* What a led_pwm_set call on LED l leaves alone: every other LED and its
\* channels, the set of LEDs and of channels, and of LED l the number of
\* elements, every element's period, polarity, element_index and channel,
\* and (with colors) every color element's value and max_value.
SetFrame(l, colors) ==
    /\ DOMAIN leds' = DOMAIN leds /\ DOMAIN hw' = DOMAIN hw
    /\ <<num_leds, classdevs, regLog, unregLog>>' =
          <<num_leds, classdevs, regLog, unregLog>>
    /\ \A m \in DOMAIN leds :
          m /= l => leds'[m] = leds[m] /\ lastSet'[m] = lastSet[m]
    /\ \A p \in DOMAIN hw :
          /\ hw'[p].led = hw[p].led
          /\ hw[p].led /= l => hw'[p] = hw[p]
    /\ leds'[l].num_elements = leds[l].num_elements
    /\ DOMAIN leds'[l].elements = DOMAIN leds[l].elements
    /\ \A i \in DOMAIN leds[l].elements :
          LET e == leds[l].elements[i]
              f == leds'[l].elements[i]
          IN  /\ f.period = e.period /\ f.active_low = e.active_low
              /\ f.element_index = e.element_index /\ f.pwm = e.pwm
    /\ leds'[l].cdev.max_brightness = leds[l].cdev.max_brightness
    /\ DOMAIN leds'[l].cdev.color_elements = DOMAIN leds[l].cdev.color_elements
    /\ colors =>
          \A k \in DOMAIN leds[l].cdev.color_elements :
              /\ leds'[l].cdev.color_elements[k].max_value =
                    leds[l].cdev.color_elements[k].max_value
              /\ leds'[l].cdev.color_elements[k].value =
                    leds[l].cdev.color_elements[k].value

\* One step of the instance that is a led_pwm_set call: a call by the LED
\* class (the instance stays where it is) or the constructor's call on the
\* LED it has just registered.  In single mode the constructor itself sets
\* the color element's value and max_value just before its call
\* (lines 182-183).
C18_Step ==
    /\ pc' = pc => \E l \in DOMAIN leds : SetFrame(l, TRUE)
    /\ (pc = "drive" /\ pc' /= pc) =>
          SetFrame(num_leds, leds[num_leds].cdev.multi)

\* C18: a led_pwm_set call changes, of the LED it is made on, only the
\* elements' recorded duty, the color elements' raw values and the state of
\* the LED's channels: every element's period, active_low, element_index
\* and channel, the number of elements and every color element's max_value
\* stay as they were, and nothing of any other LED changes.
C18_SetFrame == [][C18_Step]_vars

\* Two LEDs are bound; the LED class has set the second to full brightness
\* (duty 1000, channel enabled) while the first is as its constructor left
\* it (duty 0, channel disabled).
C18_Witness ==
    /\ pc = "bound" /\ num_leds = 2
    /\ lastSet[2].brightness = LED_FULL /\ lastSet[1].brightness = LED_OFF
    /\ \A i \in DOMAIN leds[2].elements :
          LET e == leds[2].elements[i]
          IN  e.period = 1000 /\ e.duty = 1000 /\ hw[e.pwm].enabled
    /\ \A i \in DOMAIN leds[1].elements :
          LET e == leds[1].elements[i]
          IN  e.period = 1000 /\ e.duty = 0 /\ ~hw[e.pwm].enabled

=============================================================================
